---- MODULE Spec2Model ----
(***************************************************************************)
(* A model of parse_json: the JSON lexer of lex_json.c (kept in            *)
(* lex_json.h), the recursive-descent parser and the tree utilities of     *)
(* parse_json.c.                                                           *)
(*                                                                         *)
(* Pointers are heap addresses: NULL is 0, a heap cell is an entry of the  *)
(* sequence mem.  A token_list pointer is a position in the stream tl      *)
(* (1..Len(tl)), NULL at its end.                                          *)
(***************************************************************************)
EXTENDS Integers, Sequences, FiniteSets, TLC

VARIABLES
    tl,      \* the token list: tokens {type, value (a heap address), line_cntr}
    lexed,   \* what the lexer produced: each token's type, payload and line
    doc,     \* the grammar document the stream starts with (len = 0: none)
    mem,     \* the heap: every malloc'ed cell, with the times it was free'd
    pc,      \* the caller: "lexed", "parsed" (parse_json returned), "aborted"
    nparse,  \* calls of parse_json made so far
    st,      \* the tree parse_json returned last (NULL: absence)
    end,     \* the cursor parse_json stored through its end parameter
    stLive,  \* st has not been given to syntax_tree_delete
    fails,   \* the failed rule attempts of the last parse_json call
    cp,      \* the tree syntax_tree_copy(st) returned (NULL: no copy made)
    cpLive,  \* cp has not been given to syntax_tree_delete
    wrote,   \* the copy's node whose payload the caller overwrote (NULL: none)
    field,   \* the last syntax_tree_get_field call: object, fieldname, result
    fin,         \* token_list_read_from_file: the characters of the file not yet read
    linebuffer,  \* the line fgets stored, without its terminating '\0'
    buf,         \* the position of buf in linebuffer
    line_cntr,   \* the lines read so far
    tokens,      \* the list behind sentinel.next
    lpc          \* "fgets", "scan", "returned" (tokens), "failed" (NULL), "aborted"

pvars == <<tl, lexed, doc, mem, pc, nparse, st, end, stLive, fails, cp, cpLive, wrote, field>>
lvars == <<fin, linebuffer, buf, line_cntr, tokens, lpc>>
vars == <<pvars, lvars>>

(***************************************************************************)
(* Bounds of the model.                                                    *)
(***************************************************************************)
MaxLen == 3       \* every stream of at most MaxLen tokens is an input
MaxDocLen == 9    \* grammar documents of at most MaxDocLen tokens are inputs
MaxParses == 2    \* parse_json calls on one stream
MaxStrLen == 6    \* lines of at most MaxStrLen quotes, backslashes and letters
MaxNumLen == 4    \* lines of at most MaxNumLen characters of numbers
MaxAnyLen == 2    \* lines of at most MaxAnyLen characters of any kind

(***************************************************************************)
(* Pointers.                                                               *)
(***************************************************************************)
NULL == 0
Wild == -1        \* a pointer into neither the stream nor NULL
Uninit == -2      \* a token_list variable that was never assigned

(***************************************************************************)
(* token_type_t and syntax_type_t.                                         *)
(***************************************************************************)
TOKEN_BRACKET_ARRAY_OPEN == "["
TOKEN_BRACKET_ARRAY_CLOSE == "]"
TOKEN_BRACKET_OBJECT_OPEN == "{"
TOKEN_BRACKET_OBJECT_CLOSE == "}"
TOKEN_PUNCTUATOR_COLON == ":"
TOKEN_PUNCTUATOR_COMMA == ","
TOKEN_STRING == "STRING"
TOKEN_NUMBER == "NUMBER"
TOKEN_TRUE == "TRUE"
TOKEN_FALSE == "FALSE"
TOKEN_NULL == "NULL"

syntax_string == "string"
syntax_number == "number"
syntax_pair == "pair"
syntax_elements == "elements"
syntax_members == "members"
syntax_array == "array"
syntax_object == "object"
syntax_true == "true"
syntax_false == "false"
syntax_null == "null"

(***************************************************************************)
(* Lexed tokens, as input of the parser: type, payload (str for a string   *)
(* token, num for a number token) and line.                                *)
(***************************************************************************)
Tok(type) == [type |-> type, str |-> "", num |-> 0, line |-> 1]
StrTok(s) == [type |-> TOKEN_STRING, str |-> s, num |-> 0, line |-> 1]
NumTok(n) == [type |-> TOKEN_NUMBER, str |-> "", num |-> n, line |-> 1]

\* One token of each of the eleven token types.
TokenKinds ==
    {Tok(TOKEN_BRACKET_ARRAY_OPEN), Tok(TOKEN_BRACKET_ARRAY_CLOSE),
     Tok(TOKEN_BRACKET_OBJECT_OPEN), Tok(TOKEN_BRACKET_OBJECT_CLOSE),
     Tok(TOKEN_PUNCTUATOR_COLON), Tok(TOKEN_PUNCTUATOR_COMMA),
     StrTok("a"), NumTok(1), Tok(TOKEN_TRUE), Tok(TOKEN_FALSE), Tok(TOKEN_NULL)}

(***************************************************************************)
(* The grammar of the documents, as a generator: each document is its      *)
(* token sequence together with the tree it denotes.                       *)
(*   value = object | array | string | number | true | false | null        *)
(*   object = "{" [members] "}"      array = "[" [elements] "]"            *)
(*   members = pair ("," pair)*      elements = value ("," value)*         *)
(*   pair = string ":" value                                               *)
(***************************************************************************)
Tree(type, str, num, kids) == [type |-> type, str |-> str, num |-> num, kids |-> kids]

NoTree == Tree("none", "", 0, <<>>)

LeafDoc(tok) ==
    [toks |-> <<tok>>,
     ast |-> Tree(CASE tok.type = TOKEN_STRING -> syntax_string
                    [] tok.type = TOKEN_NUMBER -> syntax_number
                    [] tok.type = TOKEN_TRUE -> syntax_true
                    [] tok.type = TOKEN_FALSE -> syntax_false
                    [] OTHER -> syntax_null,
                  tok.str, tok.num, <<>>)]

RECURSIVE ValueDocs(_, _, _), ElementsDocs(_, _, _), MembersDocs(_, _, _)

\* pair = string ":" value, of exactly k tokens: the key is copied to a String node
PairDocs(k, leaves, keys) ==
    {[toks |-> <<StrTok(key), Tok(TOKEN_PUNCTUATOR_COLON)>> \o v.toks,
      ast |-> Tree(syntax_pair, "", 0, <<Tree(syntax_string, key, 0, <<>>), v.ast>>)] :
        key \in keys, v \in ValueDocs(k - 2, leaves, keys)}

\* value, of exactly k tokens
ValueDocs(k, leaves, keys) ==
    IF k < 1 THEN {}
    ELSE IF k = 1 THEN {LeafDoc(t) : t \in leaves}
    ELSE IF k = 2
    THEN {[toks |-> <<Tok(TOKEN_BRACKET_ARRAY_OPEN), Tok(TOKEN_BRACKET_ARRAY_CLOSE)>>,
           ast |-> Tree(syntax_array, "", 0, <<>>)],
          [toks |-> <<Tok(TOKEN_BRACKET_OBJECT_OPEN), Tok(TOKEN_BRACKET_OBJECT_CLOSE)>>,
           ast |-> Tree(syntax_object, "", 0, <<>>)]}
    ELSE {[toks |-> <<Tok(TOKEN_BRACKET_ARRAY_OPEN)>> \o l.toks
                      \o <<Tok(TOKEN_BRACKET_ARRAY_CLOSE)>>,
           ast |-> Tree(syntax_array, "", 0, l.asts)] : l \in ElementsDocs(k - 2, leaves, keys)}
         \cup
         {[toks |-> <<Tok(TOKEN_BRACKET_OBJECT_OPEN)>> \o l.toks
                      \o <<Tok(TOKEN_BRACKET_OBJECT_CLOSE)>>,
           ast |-> Tree(syntax_object, "", 0, l.asts)] : l \in MembersDocs(k - 2, leaves, keys)}

\* elements = value ("," value)*, of exactly k tokens
ElementsDocs(k, leaves, keys) ==
    IF k < 1 THEN {}
    ELSE {[toks |-> v.toks, asts |-> <<v.ast>>] : v \in ValueDocs(k, leaves, keys)}
         \cup
         UNION {{[toks |-> v.toks \o <<Tok(TOKEN_PUNCTUATOR_COMMA)>> \o l.toks,
                  asts |-> <<v.ast>> \o l.asts] :
                    v \in ValueDocs(j, leaves, keys),
                    l \in ElementsDocs(k - 1 - j, leaves, keys)} : j \in 1..(k - 2)}

\* members = pair ("," pair)*, of exactly k tokens
MembersDocs(k, leaves, keys) ==
    IF k < 3 THEN {}
    ELSE {[toks |-> p.toks, asts |-> <<p.ast>>] : p \in PairDocs(k, leaves, keys)}
         \cup
         UNION {{[toks |-> p.toks \o <<Tok(TOKEN_PUNCTUATOR_COMMA)>> \o l.toks,
                  asts |-> <<p.ast>> \o l.asts] :
                    p \in PairDocs(j, leaves, keys),
                    l \in MembersDocs(k - 1 - j, leaves, keys)} : j \in 3..(k - 4)}

\* The documents of at most n tokens: a value whose root is an array or an object.
Documents(n, leaves, keys) == UNION {ValueDocs(k, leaves, keys) : k \in 2..n}

(***************************************************************************)
(* The heap.  A cell is a string payload (malloc'ed char array), a number  *)
(* payload (malloc'ed double), a tree node (syntax_tree_elem) or a child   *)
(* array (the NULL-terminated array behind syntax_tree_elem.children: its  *)
(* entries before the terminator are elems).  frees counts the calls of    *)
(* free on the cell.  malloc and realloc are taken to succeed.             *)
(*                                                                         *)
(* The parser's working state s is the heap, the log of the failed rule    *)
(* attempts, whether an uninitialised variable was read (ub), and whether  *)
(* the call ended abnormally (abort: a wild pointer was dereferenced, or   *)
(* the call recurses or loops without end).                                *)
(***************************************************************************)
StrCell(str) == [kind |-> "str", str |-> str, frees |-> 0]
NumCell(num) == [kind |-> "num", num |-> num, frees |-> 0]
NodeCell(type, data) ==
    [kind |-> "node", type |-> type, data |-> data, children |-> NULL, frees |-> 0]
ArrayCell(elems) == [kind |-> "children", elems |-> elems, frees |-> 0]

State(m) == [mem |-> m, fails |-> {}, ub |-> FALSE, abort |-> FALSE]

\* malloc: the address of the new cell is Len(s.mem) + 1
Malloc(cell, s) == [s EXCEPT !.mem = Append(@, cell)]

\* free(ptr): free(NULL) does nothing
Free(ptr, s) == IF ptr = NULL THEN s ELSE [s EXCEPT !.mem[ptr].frees = @ + 1]

syntax_tree_node_create(type, data, s) ==
    [node |-> Len(s.mem) + 1, s |-> Malloc(NodeCell(type, data), s)]

\* The entries of a node's child array before the first NULL.
LiveChildren(node, m) ==
    LET arr == m[node].children
        el == IF arr = NULL THEN <<>> ELSE m[arr].elems
        stop == {i \in 1..Len(el) : el[i] = NULL}
        n == IF stop = {} THEN Len(el) ELSE (CHOOSE i \in stop : \A j \in stop : i <= j) - 1
    IN SubSeq(el, 1, n)

syntax_tree_num_children(tree, m) == Len(LiveChildren(tree, m))

\* realloc(NULL, ..) allocates; otherwise the array keeps its address.  The
\* child is stored at index n + 1 and the terminator after it.
syntax_tree_add_child(tree, child, s) ==
    LET n == syntax_tree_num_children(tree, s.mem)
        arr == s.mem[tree].children
    IN IF arr = NULL
       THEN LET s1 == Malloc(ArrayCell(<<child>>), s)
            IN [s1 EXCEPT !.mem[tree].children = Len(s1.mem)]
       ELSE [s EXCEPT !.mem[arr].elems = Append(SubSeq(@, 1, n), child)]

RECURSIVE syntax_tree_delete(_, _), DeleteChildren(_, _, _)

\* for (c = root->children; c != NULL && *c != NULL; c++) syntax_tree_delete(*c);
DeleteChildren(kids, i, s) ==
    IF i > Len(kids) THEN s
    ELSE DeleteChildren(kids, i + 1, syntax_tree_delete(kids[i], s))

\* The children, then free(root->children) and free(root->data).
syntax_tree_delete(root, s) ==
    IF root = NULL THEN s
    ELSE Free(s.mem[root].data,
              Free(s.mem[root].children, DeleteChildren(LiveChildren(root, s.mem), 1, s)))

\* syntax_tree_first_child / syntax_tree_next_sibling walk the child array:
\* the entries visited are those before the first NULL, the first one
\* unconditionally when the array exists.
SiblingWalk(root, m) ==
    LET arr == m[root].children
    IN IF arr = NULL THEN <<>>
       ELSE IF Len(m[arr].elems) = 0 \/ m[arr].elems[1] = NULL THEN <<NULL>>
       ELSE LiveChildren(root, m)

RECURSIVE syntax_tree_copy(_, _), CopyChildren(_, _, _, _)

\* syntax_tree_add_child(t, c) for the copy c of a child
AddCopy(t, c) == syntax_tree_add_child(t, c.node, c.s)

CopyChildren(t, kids, i, s) ==
    IF i > Len(kids) THEN s
    ELSE CopyChildren(t, kids, i + 1, AddCopy(t, syntax_tree_copy(kids[i], s)))

\* A new node with the original's type and the original's data pointer,
\* then a copy of every child.
CopyInto(root, t) ==
    [node |-> t.node, s |-> CopyChildren(t.node, SiblingWalk(root, t.s.mem), 1, t.s)]

syntax_tree_copy(root, s) ==
    IF root = NULL THEN [node |-> NULL, s |-> s]
    ELSE CopyInto(root, syntax_tree_node_create(s.mem[root].type, s.mem[root].data, s))

RECURSIVE FieldScan(_, _, _, _)

\* the first pair's value, whatever its name
FieldScan_FirstPair(kids, i, fieldname, m) ==
    IF i > Len(kids) THEN NULL ELSE LiveChildren(kids[i], m)[2]

\* the loop of syntax_tree_get_field over the pairs
FieldScan(kids, i, fieldname, m) ==
    IF i > Len(kids) THEN NULL
    ELSE LET pair == LiveChildren(kids[i], m)
             fld == pair[1]
             value == pair[2]
         IN IF m[fld].data # NULL /\ m[m[fld].data].str = fieldname
            THEN value
            ELSE FieldScan(kids, i + 1, fieldname, m)

syntax_tree_get_field(object, fieldname, m) ==
    IF object = NULL \/ m[object].type # syntax_object THEN NULL
    ELSE FieldScan(LiveChildren(object, m), 1, fieldname, m)

\* strclone: a new string cell with the same characters
strclone(str, s) == [ptr |-> Len(s.mem) + 1, s |-> Malloc(StrCell(s.mem[str].str), s)]

\* number_clone: NULL for NULL, else a new number cell with the same value
number_clone(d, s) ==
    IF d = NULL THEN [ptr |-> NULL, s |-> s]
    ELSE [ptr |-> Len(s.mem) + 1, s |-> Malloc(NumCell(s.mem[d].num), s)]

(***************************************************************************)
(* The parser.  A rule function  f(token_list tl, token_list *end)  is an  *)
(* operator f(t, e, s, ...): t is tl, e is what the caller's variable      *)
(* behind end holds when f is called (Uninit for a fresh local), s the     *)
(* working state.  Its value is the returned tree st (NULL: failure), what *)
(* the caller's variable holds on return (end), and the new state.         *)
(*                                                                         *)
(* g is the value a read of an uninitialised token_list variable yields:   *)
(* NULL, a position of the stream, or a wild pointer.                      *)
(* d counts the nested parse_value calls: more than Len(tl) + 1 of them    *)
(* means one cursor is parsed inside itself, a recursion that never ends.  *)
(***************************************************************************)
TokenNext(t) == IF t < Len(tl) THEN t + 1 ELSE NULL     \* t->next

Success(node, e, s) == [st |-> node, end |-> e, s |-> s]

\* return NULL: the attempt of rule at start is logged with the cursor it leaves
Failure(rule, start, e, s) ==
    [st |-> NULL, end |-> e,
     s |-> [s EXCEPT !.fails = @ \cup {[rule |-> rule, start |-> start, end |-> e]}]]

Aborted(e, s) == [st |-> NULL, end |-> e, s |-> [s EXCEPT !.abort = TRUE]]

parse_string(t, e, s) ==
    IF t = NULL \/ tl[t].type # TOKEN_STRING THEN Failure("parse_string", t, e, s)
    ELSE LET n == syntax_tree_node_create(syntax_string, tl[t].value, s)
         IN Success(n.node, TokenNext(t), n.s)

parse_number(t, e, s) ==
    IF t = NULL \/ tl[t].type # TOKEN_NUMBER THEN Failure("parse_number", t, e, s)
    ELSE LET d == number_clone(tl[t].value, s)
             n == syntax_tree_node_create(syntax_number, d.ptr, d.s)
         IN Success(n.node, TokenNext(t), n.s)

parse_true(t, e, s) ==
    IF t = NULL \/ tl[t].type # TOKEN_TRUE THEN Failure("parse_true", t, e, s)
    ELSE LET n == syntax_tree_node_create(syntax_true, NULL, s)
         IN Success(n.node, TokenNext(t), n.s)

parse_false(t, e, s) ==
    IF t = NULL \/ tl[t].type # TOKEN_FALSE THEN Failure("parse_false", t, e, s)
    ELSE LET n == syntax_tree_node_create(syntax_false, NULL, s)
         IN Success(n.node, TokenNext(t), n.s)

parse_null(t, e, s) ==
    IF t = NULL \/ tl[t].type # TOKEN_NULL THEN Failure("parse_null", t, e, s)
    ELSE LET n == syntax_tree_node_create(syntax_null, NULL, s)
         IN Success(n.node, TokenNext(t), n.s)

RECURSIVE parse_value(_, _, _, _, _), parse_array(_, _, _, _, _), parse_object(_, _, _, _, _)
RECURSIVE ValueLoop(_, _, _, _, _, _)
RECURSIVE ElementsLoop(_, _, _, _, _, _, _, _), MembersLoop(_, _, _, _, _, _, _, _)
RECURSIVE MoveChildren(_, _, _, _)

\* parsing_function_t pfs[]
pfs == <<"parse_object", "parse_array", "parse_true", "parse_false", "parse_null",
         "parse_string", "parse_number">>

\* pfs[i](tl, end)
CallRule(i, t, e, s, d, g) ==
    CASE pfs[i] = "parse_object" -> parse_object(t, e, s, d, g)
      [] pfs[i] = "parse_array" -> parse_array(t, e, s, d, g)
      [] pfs[i] = "parse_true" -> parse_true(t, e, s)
      [] pfs[i] = "parse_false" -> parse_false(t, e, s)
      [] pfs[i] = "parse_null" -> parse_null(t, e, s)
      [] pfs[i] = "parse_string" -> parse_string(t, e, s)
      [] OTHER -> parse_number(t, e, s)

\* if ((st = pfs[i](tl, end)) != NULL) return st;  else the next i
ValueTry(i, t, d, g, r) ==
    IF r.st # NULL \/ r.s.abort THEN r ELSE ValueLoop(i + 1, t, r.end, r.s, d, g)

\* for (int i = 0; pfs[i] != NULL; i++) ... return NULL;
ValueLoop(i, t, e, s, d, g) ==
    IF i > Len(pfs) THEN Failure("parse_value", t, e, s)
    ELSE ValueTry(i, t, d, g, CallRule(i, t, e, s, d, g))

parse_value(t, e, s, d, g) ==
    IF d > Len(tl) + 1 THEN Aborted(e, s) ELSE ValueLoop(1, t, e, s, d, g)

\* the pair node of parse_pair: the key is a clone of the token's string
NewPair(fieldname, value) ==
    LET pair == syntax_tree_node_create(syntax_pair, NULL, value.s)
        key == strclone(fieldname, pair.s)
        keynode == syntax_tree_node_create(syntax_string, key.ptr, key.s)
        s1 == syntax_tree_add_child(pair.node, keynode.node, keynode.s)
    IN Success(pair.node, value.end, syntax_tree_add_child(pair.node, value.st, s1))

\* parse_pair after  syntax_tree value = parse_value(tl, &e)
PairValue(t, value) ==
    IF value.s.abort THEN Aborted(t, value.s)
    ELSE IF value.st = NULL THEN Failure("parse_pair", t, t, value.s)
    ELSE NewPair(tl[t].value, value)

parse_pair(t, e, s, d, g) ==
    IF t = NULL THEN Failure("parse_pair", t, e, s)
    ELSE \* *end = tl
    IF tl[t].type # TOKEN_STRING THEN Failure("parse_pair", t, t, s)
    ELSE IF TokenNext(t) = NULL \/ tl[TokenNext(t)].type # TOKEN_PUNCTUATOR_COLON
    THEN Failure("parse_pair", t, t, s)
    ELSE PairValue(t, parse_value(TokenNext(TokenNext(t)), Uninit, s, d + 1, g))

\* the body of the while loop of parse_elements after  v = parse_value(t, &e)
ElementsStep(start, elements, d, g, n, v) ==
    IF v.s.abort THEN Aborted(start, v.s)
    ELSE IF v.st = NULL
    THEN Failure("parse_elements", start, start, syntax_tree_delete(elements, v.s))
    ELSE ElementsLoop(start, v.end, v.end, elements,
                      syntax_tree_add_child(elements, v.st, v.s), d, g, n + 1)

\* while (t != NULL && get_token(t)->type == TOKEN_PUNCTUATOR_COMMA) of
\* parse_elements: t and e are its locals, n the commas passed so far.  More
\* than Len(tl) of them means a cursor comes round again: the loop never ends.
ElementsLoop(start, t, e, elements, s, d, g, n) ==
    IF t # NULL /\ tl[t].type = TOKEN_PUNCTUATOR_COMMA
    THEN IF n >= Len(tl) THEN Aborted(start, s)
         ELSE ElementsStep(start, elements, d, g, n, parse_value(TokenNext(t), e, s, d + 1, g))
    ELSE Success(elements, e, s)

\* the elements node with its first child
NewList(type, first) ==
    LET list == syntax_tree_node_create(type, NULL, first.s)
    IN [node |-> list.node, s |-> syntax_tree_add_child(list.node, first.st, list.s)]

ElementsStart(t, d, g, v, elements) == ElementsLoop(t, v.end, v.end, elements.node, elements.s, d, g, 0)

\* parse_elements after the first  v = parse_value(t, &e)
ElementsFirst(t, d, g, v) ==
    IF v.s.abort THEN Aborted(t, v.s)
    ELSE IF v.st = NULL THEN Failure("parse_elements", t, t, v.s)
    ELSE ElementsStart(t, d, g, v, NewList(syntax_elements, v))

parse_elements(t, e, s, d, g) ==
    IF t = NULL THEN Failure("parse_elements", t, e, s)
    ELSE \* *end = tl
         ElementsFirst(t, d, g, parse_value(t, Uninit, s, d + 1, g))

\* the body of the while loop of parse_members after  p = parse_pair(t, &e)
MembersStep(start, members, d, g, n, p) ==
    IF p.s.abort THEN Aborted(start, p.s)
    ELSE IF p.st = NULL
    THEN Failure("parse_members", start, start, syntax_tree_delete(members, p.s))
    ELSE MembersLoop(start, p.end, p.end, members,
                     syntax_tree_add_child(members, p.st, p.s), d, g, n + 1)

\* the same loop of parse_members, over pairs
MembersLoop(start, t, e, members, s, d, g, n) ==
    IF t # NULL /\ tl[t].type = TOKEN_PUNCTUATOR_COMMA
    THEN IF n >= Len(tl) THEN Aborted(start, s)
         ELSE MembersStep(start, members, d, g, n, parse_pair(TokenNext(t), e, s, d, g))
    ELSE Success(members, e, s)

MembersStart(t, d, g, p, members) == MembersLoop(t, p.end, p.end, members.node, members.s, d, g, 0)

\* parse_members after the first  p = parse_pair(t, &e)
MembersFirst(t, d, g, p) ==
    IF p.s.abort THEN Aborted(t, p.s)
    ELSE IF p.st = NULL THEN Failure("parse_members", t, t, p.s)
    ELSE MembersStart(t, d, g, p, NewList(syntax_members, p))

parse_members(t, e, s, d, g) ==
    IF t = NULL THEN Failure("parse_members", t, e, s)
    ELSE \* *end = tl
         MembersFirst(t, d, g, parse_pair(t, Uninit, s, d, g))

\* the first child moved, the others left behind
MoveChildren_FirstOnly(node, from, i, s) ==
    IF s.mem[from].children = NULL
       \/ Len(s.mem[s.mem[from].children].elems) = 0
       \/ s.mem[s.mem[from].children].elems[1] = NULL
    THEN s
    ELSE [syntax_tree_add_child(node, s.mem[s.mem[from].children].elems[1], s)
             EXCEPT !.mem[s.mem[from].children].elems[1] = NULL]

\* for (c = from->children; c != NULL && *c != NULL; c++)
\*     { syntax_tree_add_child(st, *c); *c = NULL; }       (i is c's index)
MoveChildren(node, from, i, s) ==
    IF s.mem[from].children = NULL
       \/ i > Len(s.mem[s.mem[from].children].elems)
       \/ s.mem[s.mem[from].children].elems[i] = NULL
    THEN s
    ELSE MoveChildren(node, from, i + 1,
             [syntax_tree_add_child(node, s.mem[s.mem[from].children].elems[i], s)
                 EXCEPT !.mem[s.mem[from].children].elems[i] = NULL])

\* the list node itself made the child of the new node
Reparent_KeepList(list, node) ==
    IF list # NULL
    THEN [node |-> node.node, s |-> syntax_tree_add_child(node.node, list, node.s)]
    ELSE node

\* the new array or object node, the list's children moved to it and the
\* emptied list node deleted
Reparent(list, node) ==
    IF list # NULL
    THEN [node |-> node.node,
          s |-> syntax_tree_delete(list, MoveChildren(node.node, list, 1, node.s))]
    ELSE node

\* the closing bracket left unconsumed
Adopted_SameCursor(t1, node) == Success(node.node, t1, node.s)

Adopted(t1, node) == Success(node.node, TokenNext(t1), node.s)

\* parse_array and parse_object from the closing bracket on: t1 is the t
\* read from e
Closing(rule, t, list, close, type, t1, s0) ==
    IF t1 = Wild THEN Aborted(t, s0)      \* get_token(t)->type through a wild pointer
    ELSE IF t1 = NULL \/ tl[t1].type # close
    THEN Failure(rule, t, t, syntax_tree_delete(list.st, s0))
    ELSE Adopted(t1, Reparent(list.st, syntax_tree_node_create(type, NULL, s0)))

\* parse_array and parse_object after  list = parse_elements(t, &e)  or
\* parse_members(t, &e):  e is a local the list rule leaves unassigned when
\* it is called at the end of the stream, and  t = e  then reads an
\* uninitialised variable.
Bracketed(rule, t, list, close, type, g) ==
    IF list.s.abort THEN Aborted(t, list.s)
    ELSE Closing(rule, t, list, close, type,
                 IF list.end = Uninit THEN g ELSE list.end,
                 [list.s EXCEPT !.ub = @ \/ (list.end = Uninit)])

parse_array(t, e, s, d, g) ==
    IF t = NULL THEN Failure("parse_array", t, e, s)
    ELSE \* *end = tl
    IF tl[t].type # TOKEN_BRACKET_ARRAY_OPEN THEN Failure("parse_array", t, t, s)
    ELSE Bracketed("parse_array", t, parse_elements(TokenNext(t), Uninit, s, d, g),
                   TOKEN_BRACKET_ARRAY_CLOSE, syntax_array, g)

parse_object(t, e, s, d, g) ==
    IF t = NULL THEN Failure("parse_object", t, e, s)
    ELSE \* *end = tl
    IF tl[t].type # TOKEN_BRACKET_OBJECT_OPEN THEN Failure("parse_object", t, t, s)
    ELSE Bracketed("parse_object", t, parse_members(TokenNext(t), Uninit, s, d, g),
                   TOKEN_BRACKET_OBJECT_CLOSE, syntax_object, g)

\* parse_json after  s = parse_array(tl, end): the object is tried next
JsonObject(t, g, a) ==
    IF a.st # NULL \/ a.s.abort THEN a ELSE parse_object(t, a.end, a.s, 0, g)

JsonResult(t, o) ==
    IF o.st # NULL \/ o.s.abort THEN o ELSE Failure("parse_json", t, o.end, o.s)

\* *end = tl first, also for an empty stream; then array, then object
parse_json(t, s, g) ==
    IF t = NULL THEN Failure("parse_json", t, t, s)
    ELSE JsonResult(t, JsonObject(t, g, parse_array(t, t, s, 0, g)))

(***************************************************************************)
(* The inputs of the parser: token streams as token_list_read_from_file    *)
(* leaves them, string and number payloads in cells of their own.          *)
(***************************************************************************)
DocLeaves == {StrTok("a"), NumTok(1), Tok(TOKEN_TRUE)}
DocKeys == {"a", "b"}
FieldNames == {"a", "b", "c"}

\* the inputs spelled out in the specification:  [1,2,3]  and  {"a":1,"b":2}
Example123 ==
    [toks |-> <<Tok(TOKEN_BRACKET_ARRAY_OPEN), NumTok(1), Tok(TOKEN_PUNCTUATOR_COMMA),
                NumTok(2), Tok(TOKEN_PUNCTUATOR_COMMA), NumTok(3),
                Tok(TOKEN_BRACKET_ARRAY_CLOSE)>>,
     ast |-> Tree(syntax_array, "", 0,
                  <<Tree(syntax_number, "", 1, <<>>), Tree(syntax_number, "", 2, <<>>),
                    Tree(syntax_number, "", 3, <<>>)>>)]

ExampleAB ==
    [toks |-> <<Tok(TOKEN_BRACKET_OBJECT_OPEN), StrTok("a"), Tok(TOKEN_PUNCTUATOR_COLON),
                NumTok(1), Tok(TOKEN_PUNCTUATOR_COMMA), StrTok("b"),
                Tok(TOKEN_PUNCTUATOR_COLON), NumTok(2), Tok(TOKEN_BRACKET_OBJECT_CLOSE)>>,
     ast |-> Tree(syntax_object, "", 0,
                  <<Tree(syntax_pair, "", 0,
                         <<Tree(syntax_string, "a", 0, <<>>), Tree(syntax_number, "", 1, <<>>)>>),
                    Tree(syntax_pair, "", 0,
                         <<Tree(syntax_string, "b", 0, <<>>), Tree(syntax_number, "", 2, <<>>)>>)>>)]

DocSet == UNION {Documents(MaxDocLen, DocLeaves, DocKeys), {Example123, ExampleAB}}

\* the documents short enough to open a stream of at most MaxLen tokens
ShortDocs ==
    Documents(MaxLen, {k \in TokenKinds : k.type \in {TOKEN_STRING, TOKEN_NUMBER, TOKEN_TRUE,
                                                      TOKEN_FALSE, TOKEN_NULL}}, {"a"})

IsPrefix(p, q) == Len(p) <= Len(q) /\ SubSeq(q, 1, Len(p)) = p

Input(toks, ast, len) == [toks |-> toks, ast |-> ast, len |-> len]

\* a stream of at most MaxLen tokens, with the document it starts with, if any
Classify(toks) ==
    LET ds == {d \in ShortDocs : IsPrefix(d.toks, toks)}
    IN IF ds = {} THEN Input(toks, NoTree, 0)
       ELSE LET d == CHOOSE d \in ds : TRUE IN Input(toks, d.ast, Len(d.toks))

\* every stream of at most MaxLen tokens
StreamInputs ==
    {Classify(SubSeq(f, 1, k)) : f \in [1..MaxLen -> TokenKinds], k \in 0..MaxLen}

\* tokens left over after a document
Trailing == {<<>>, <<Tok(TOKEN_PUNCTUATOR_COMMA)>>, <<Tok(TOKEN_BRACKET_ARRAY_CLOSE)>>}

\* the first k tokens of a document, or the document and the tokens x after it
DocInput(d, k, x) ==
    IF k < Len(d.toks)
    THEN Input(SubSeq(d.toks, 1, k), NoTree, 0)
    ELSE Input(d.toks \o x, d.ast, Len(d.toks))

\* the documents, whole, cut short, and with a token left over
DocInputs == {DocInput(d, k, x) : d \in DocSet, k \in 1..MaxDocLen, x \in Trailing}

Inputs(docs) == IF docs THEN DocInputs ELSE StreamInputs

HasPayload(tok) == tok.type \in {TOKEN_STRING, TOKEN_NUMBER}

\* the payloads the lexer malloc'ed, in stream order, and the tokens pointing at them
PayloadAddr(toks, i) == Cardinality({j \in 1..i : HasPayload(toks[j])})

TokenList(toks) ==
    [i \in 1..Len(toks) |->
        [type |-> toks[i].type,
         value |-> IF HasPayload(toks[i]) THEN PayloadAddr(toks, i) ELSE NULL,
         line_cntr |-> toks[i].line]]

Payloads(toks) ==
    [a \in 1..PayloadAddr(toks, Len(toks)) |->
        LET i == CHOOSE i \in 1..Len(toks) : HasPayload(toks[i]) /\ PayloadAddr(toks, i) = a
        IN IF toks[i].type = TOKEN_STRING THEN StrCell(toks[i].str) ELSE NumCell(toks[i].num)]

NoField == [called |-> FALSE, object |-> NULL, fieldname |-> "", result |-> NULL]

Init ==
    \E docs \in BOOLEAN : \E in \in Inputs(docs) :
        /\ lexed = in.toks
        /\ tl = TokenList(in.toks)
        /\ mem = Payloads(in.toks)
        /\ doc = [ast |-> in.ast, len |-> in.len]
        /\ pc = "lexed"
        /\ nparse = 0
        /\ st = NULL
        /\ end = Uninit
        /\ stLive = FALSE
        /\ fails = {}
        /\ cp = NULL
        /\ cpLive = FALSE
        /\ wrote = NULL
        /\ field = NoField
        /\ fin = <<>> /\ linebuffer = <<>> /\ buf = 1 /\ line_cntr = 0
        /\ tokens = <<>> /\ lpc = "idle"

(***************************************************************************)
(* The caller's steps.                                                     *)
(***************************************************************************)
StreamHead == IF Len(tl) = 0 THEN NULL ELSE 1

\* What an uninitialised token_list variable may hold.  A call that reads
\* none (r is the call with NULL for the value) is the same for every value.
Garbage(r) == IF r.s.ub THEN {NULL, Wild} \cup (1..Len(tl)) ELSE {NULL}

\* parse_json returns r, or the process dies in it
Returned(r) ==
    IF r.s.abort
    THEN /\ pc' = "aborted"
         /\ UNCHANGED <<mem, st, end, stLive, fails>>
    ELSE /\ pc' = "parsed"
         /\ mem' = r.s.mem
         /\ st' = r.st
         /\ end' = r.end
         /\ stLive' = (r.st # NULL)
         /\ fails' = r.s.fails

\* st = parse_json(tl, &end)
Parse ==
    /\ pc \in {"lexed", "parsed"}
    /\ ~stLive
    /\ nparse < MaxParses
    /\ \E g \in Garbage(parse_json(StreamHead, State(mem), NULL)) :
         Returned(parse_json(StreamHead, State(mem), g))
    /\ nparse' = nparse + 1
    /\ field' = NoField
    /\ UNCHANGED <<tl, lexed, doc, cp, cpLive, wrote>>
    /\ UNCHANGED lvars

Copied(c) == cp' = c.node /\ mem' = c.s.mem

\* cp = syntax_tree_copy(st)
Copy ==
    /\ pc = "parsed" /\ stLive /\ cp = NULL
    /\ Copied(syntax_tree_copy(st, State(mem)))
    /\ cpLive' = TRUE
    /\ field' = NoField
    /\ UNCHANGED <<tl, lexed, doc, pc, nparse, st, end, stLive, fails, wrote>>
    /\ UNCHANGED lvars

\* syntax_tree_delete(st)
DeleteTree ==
    /\ pc = "parsed" /\ stLive
    /\ mem' = syntax_tree_delete(st, State(mem)).mem
    /\ stLive' = FALSE
    /\ field' = NoField
    /\ UNCHANGED <<tl, lexed, doc, pc, nparse, st, end, fails, cp, cpLive, wrote>>
    /\ UNCHANGED lvars

\* syntax_tree_delete(cp)
DeleteCopy ==
    /\ pc = "parsed" /\ cpLive
    /\ mem' = syntax_tree_delete(cp, State(mem)).mem
    /\ cpLive' = FALSE
    /\ field' = NoField
    /\ UNCHANGED <<tl, lexed, doc, pc, nparse, st, end, stLive, fails, cp, wrote>>
    /\ UNCHANGED lvars

Range(seq) == {seq[i] : i \in 1..Len(seq)}

RECURSIVE NodesOf(_, _)
\* the nodes of the tree at root
NodesOf(root, m) ==
    IF root = NULL THEN {}
    ELSE LET kids == LiveChildren(root, m)
         IN {root} \cup UNION {NodesOf(kids[i], m) : i \in 1..Len(kids)}

\* The caller changes a payload through a node of the copy: node->data is a
\* plain pointer to the characters or to the double.
WritePayload ==
    /\ pc = "parsed" /\ cpLive /\ wrote = NULL
    /\ \E node \in NodesOf(cp, mem) :
         LET data == mem[node].data IN
         /\ data # NULL
         /\ mem[data].frees = 0
         /\ mem' = IF mem[data].kind = "str"
                   THEN [mem EXCEPT ![data].str = "z"]
                   ELSE [mem EXCEPT ![data].num = 9]
         /\ wrote' = node
    /\ field' = NoField
    /\ UNCHANGED <<tl, lexed, doc, pc, nparse, st, end, stLive, fails, cp, cpLive>>
    /\ UNCHANGED lvars

\* syntax_tree_get_field(object, fieldname) on the tree just parsed, on a
\* child of its root, or on NULL
GetField ==
    /\ pc = "parsed" /\ cp = NULL /\ ~field.called /\ nparse = 1
    /\ st # NULL => stLive
    /\ \E object \in {NULL, st} \cup (IF st = NULL THEN {} ELSE Range(LiveChildren(st, mem))),
          fieldname \in FieldNames :
         field' = [called |-> TRUE, object |-> object, fieldname |-> fieldname,
                   result |-> syntax_tree_get_field(object, fieldname, mem)]
    /\ UNCHANGED <<tl, lexed, doc, mem, pc, nparse, st, end, stLive, fails, cp, cpLive, wrote>>
    /\ UNCHANGED lvars

Next == Parse \/ Copy \/ DeleteTree \/ DeleteCopy \/ WritePayload \/ GetField

Spec == Init /\ [][Next]_vars

(***************************************************************************)
(* The lexer.  A string of C is a sequence of one-character strings; the   *)
(* character at the position after its last one is the terminating '\0'.   *)
(* A char const * into linebuffer is a position 1..Len(linebuffer) + 1.    *)
(***************************************************************************)
NUL == ""

CharAt(str, s) == IF s >= 1 /\ s <= Len(str) THEN str[s] ELSE NUL

DigitChars == <<"0", "1", "2", "3", "4", "5", "6", "7", "8", "9">>

isdigit(c) == c \in Range(DigitChars)

DigitValue(c) == (CHOOSE i \in 1..Len(DigitChars) : DigitChars[i] = c) - 1

isalpha(c) ==
    c \in {"a", "b", "c", "d", "e", "f", "g", "h", "i", "j", "k", "l", "m",
           "n", "o", "p", "q", "r", "s", "t", "u", "v", "w", "x", "y", "z",
           "A", "B", "C", "D", "E", "F", "G", "H", "I", "J", "K", "L", "M",
           "N", "O", "P", "Q", "R", "S", "T", "U", "V", "W", "X", "Y", "Z"}

isalnum(c) == isalpha(c) \/ isdigit(c)

isspace(c) == c \in {" ", "\t", "\n", "\r", "\f"}

\* while (*s >= '0' && *s <= '9'): the digits read into num, n of them
RECURSIVE ReadDigits(_, _, _, _)
ReadDigits(str, s, num, n) ==
    IF isdigit(CharAt(str, s))
    THEN ReadDigits(str, s + 1, num * 10 + DigitValue(CharAt(str, s)), n + 1)
    ELSE [s |-> s, num |-> num, n |-> n]

\* The double read_number computes is kept as the decimal it stands for:
\* (-1)^sign * num * 10^(exponent - scale), num the digits of the integer
\* and of the fractional part, scale the digits of the fractional part.
Number(sign, num, scale, exponent) ==
    [sign |-> sign, num |-> num, scale |-> scale, exponent |-> exponent]

ExponentDigits(sign, m, scale, expsign, x) ==
    [s |-> x.s,
     number |-> Number(sign, m, scale, IF expsign = 1 THEN 0 - x.num ELSE x.num)]

ExponentPart(str, sign, m, scale, s) ==
    IF CharAt(str, s) \in {"e", "E"}
    THEN IF CharAt(str, s + 1) = "-"
         THEN ExponentDigits(sign, m, scale, 1, ReadDigits(str, s + 2, 0, 0))
         ELSE IF CharAt(str, s + 1) = "+"
         THEN ExponentDigits(sign, m, scale, 0, ReadDigits(str, s + 2, 0, 0))
         ELSE ExponentDigits(sign, m, scale, 0, ReadDigits(str, s + 1, 0, 0))
    ELSE [s |-> s, number |-> Number(sign, m, scale, 0)]

FractionDigits(str, sign, f) == ExponentPart(str, sign, f.num, f.n, f.s)

FractionalPart(str, sign, i) ==
    IF CharAt(str, i.s) = "."
    THEN FractionDigits(str, sign, ReadDigits(str, i.s + 1, i.num, 0))
    ELSE ExponentPart(str, sign, i.num, 0, i.s)

IntegerPart(str, sign, s) ==
    IF CharAt(str, s) \in Range(DigitChars) \ {"0"}
    THEN FractionalPart(str, sign, ReadDigits(str, s + 1, DigitValue(CharAt(str, s)), 1))
    ELSE FractionalPart(str, sign, ReadDigits(str, s, 0, 0))

\* the position after the characters read, and the number
read_number(str, s) ==
    IF CharAt(str, s) = "-"
    THEN IntegerPart(str, 1, s + 1)
    ELSE IntegerPart(str, 0, s)

\* while (*str != '\0' && isspace(*str)) str++;
RECURSIVE SkipSpaces(_, _)
SkipSpaces(str, s) ==
    IF CharAt(str, s) # NUL /\ isspace(CharAt(str, s))
    THEN SkipSpaces(str, s + 1)
    ELSE s

single_character_tokens ==
    <<[tok |-> TOKEN_PUNCTUATOR_COMMA, c |-> ","],
      [tok |-> TOKEN_PUNCTUATOR_COLON, c |-> ":"],
      [tok |-> TOKEN_BRACKET_ARRAY_OPEN, c |-> "["],
      [tok |-> TOKEN_BRACKET_ARRAY_CLOSE, c |-> "]"],
      [tok |-> TOKEN_BRACKET_OBJECT_OPEN, c |-> "{"],
      [tok |-> TOKEN_BRACKET_OBJECT_CLOSE, c |-> "}"]>>

keywords ==
    <<[tok |-> TOKEN_TRUE, str |-> <<"t", "r", "u", "e">>],
      [tok |-> TOKEN_FALSE, str |-> <<"f", "a", "l", "s", "e">>],
      [tok |-> TOKEN_NULL, str |-> <<"n", "u", "l", "l">>]>>

\* strncmp(str, kw, strlen(kw)) == 0
strncmp(str, s, kw) == \A i \in 1..Len(kw) : CharAt(str, s + i - 1) = kw[i]

KeywordAt(str, s, kw) ==
    /\ strncmp(str, s, kw)
    /\ ~isalnum(CharAt(str, s + Len(kw)))
    /\ CharAt(str, s + Len(kw)) # "_"

\* the while loop of the string rule: where end stops, started after the
\* opening quote
RECURSIVE StringEnd_FirstQuote(_, _)
StringEnd_FirstQuote(str, e) ==
    IF CharAt(str, e) # NUL /\ CharAt(str, e) # "\""
    THEN StringEnd_FirstQuote(str, e + 1)
    ELSE e

RECURSIVE StringEnd(_, _)
StringEnd(str, e) ==
    IF CharAt(str, e) # NUL /\ CharAt(str, e) # "\""
    THEN IF CharAt(str, e) = "\\" /\ CharAt(str, e + 1) = "\""
         THEN StringEnd(str, e + 2)
         ELSE StringEnd(str, e + 1)
    ELSE e

\* What read_next_token returns and what it stored in *tok.  ub: the call
\* did strncpy(v, str + 1, n - 2) with n - 2 wrapped around (n < 2).
Token(type, value) == [type |-> type, value |-> value]

NoToken == Token("none", NULL)

TokenRead(e, tok) == [end |-> e, tok |-> tok, ub |-> FALSE]

\* n = end - str characters from the opening quote; the n - 2 after it are copied
StringToken(str, s, e) ==
    IF e - s < 2
    THEN [end |-> e, tok |-> Token(TOKEN_STRING, <<>>), ub |-> TRUE]
    ELSE TokenRead(e, Token(TOKEN_STRING, SubSeq(str, s + 1, s + (e - s) - 2)))

StringClosed(str, s, e) ==
    IF CharAt(str, e) = NUL
    THEN StringToken(str, s, e)
    ELSE StringToken(str, s, e + 1)

NumberToken(s, save, r) ==
    IF r.s # s
    THEN TokenRead(r.s, Token(TOKEN_NUMBER, r.number))
    ELSE TokenRead(save, NoToken)

TokenAt(str, s, save) ==
    IF CharAt(str, s) = NUL
    THEN TokenRead(NULL, NoToken)
    ELSE IF \E i \in 1..Len(single_character_tokens) :
                single_character_tokens[i].c = CharAt(str, s)
    THEN LET i == CHOOSE i \in 1..Len(single_character_tokens) :
                        single_character_tokens[i].c = CharAt(str, s)
         IN TokenRead(s + 1, Token(single_character_tokens[i].tok, NULL))
    ELSE IF \E i \in 1..Len(keywords) : KeywordAt(str, s, keywords[i].str)
    THEN LET i == CHOOSE i \in 1..Len(keywords) : KeywordAt(str, s, keywords[i].str)
         IN TokenRead(s + Len(keywords[i].str), Token(keywords[i].tok, NULL))
    ELSE IF CharAt(str, s) = "\""
    THEN StringClosed(str, s, StringEnd(str, s + 1))
    ELSE NumberToken(s, save, read_number(str, s))

read_next_token(str, save) == TokenAt(str, SkipSpaces(str, save), save)

(***************************************************************************)
(* token_list_read_from_file.                                              *)
(***************************************************************************)
MAX_LINE == 16 * 1024

\* fgets(linebuffer, MAX_LINE, fin) reads up to the first newline, it
\* included, and at most MAX_LINE - 1 characters
RECURSIVE LineLength(_, _)
LineLength(file, n) ==
    IF n < Len(file) /\ n < MAX_LINE - 1 /\ (n = 0 \/ file[n] # "\n")
    THEN LineLength(file, n + 1)
    ELSE n

\* the files lexed
Strings(chars, n) == {SubSeq(f, 1, k) : f \in [1..n -> chars], k \in 0..n}

StrChars == {"\"", "\\", "a", "b"}
NumChars == {"-", "0", "1", ".", "e", "+"}
AnyChars == StrChars \cup NumChars \cup
            {",", ":", "[", "]", "{", "}", " ", "?", "_", "t"}
FirstLines == {<<>>, <<"[">>, <<"1", " ", "\"", "a", "\"">>, <<"?">>}

\* the lines, family by family
Lines(i) ==
    CASE i = 1 -> Strings(StrChars, MaxStrLen)
      [] i = 2 -> Strings(NumChars, MaxNumLen)
      [] i = 3 -> Strings(AnyChars, MaxAnyLen)
      [] i = 4 -> {keywords[k].str \o c : k \in 1..Len(keywords), c \in Strings(AnyChars, 1)}

\* a line as the file, as the file's only line, and after a first line
Files(l) ==
    UNION {{l, l \o <<"\n">>},
           IF Len(l) <= MaxAnyLen /\ Range(l) \subseteq AnyChars
           THEN {f \o <<"\n">> \o l : f \in FirstLines} ELSE {}}

ParserIdle ==
    /\ lexed = <<>> /\ tl = <<>> /\ mem = <<>>
    /\ doc = [ast |-> NoTree, len |-> 0]
    /\ pc = "idle" /\ nparse = 0 /\ st = NULL /\ end = Uninit
    /\ stLive = FALSE /\ fails = {} /\ cp = NULL /\ cpLive = FALSE
    /\ wrote = NULL /\ field = NoField

LexInit ==
    /\ ParserIdle
    /\ \E i \in 1..4 : \E l \in Lines(i) : fin \in Files(l)
    /\ linebuffer = <<>>
    /\ buf = 1
    /\ line_cntr = 0
    /\ tokens = <<>>
    /\ lpc = "fgets"

\* while (fgets(linebuffer, MAX_LINE, fin) != NULL) { line_cntr++; ... buf = linebuffer
\* and, at the end of the file, return sentinel.next
Fgets ==
    /\ lpc = "fgets"
    /\ IF fin = <<>>
       THEN /\ lpc' = "returned"
            /\ UNCHANGED <<fin, linebuffer, buf, line_cntr>>
       ELSE /\ linebuffer' = SubSeq(fin, 1, LineLength(fin, 0))
            /\ fin' = SubSeq(fin, LineLength(fin, 0) + 1, Len(fin))
            /\ line_cntr' = line_cntr + 1
            /\ buf' = 1
            /\ lpc' = "scan"
    /\ UNCHANGED tokens
    /\ UNCHANGED pvars

\* one turn of while ((end = read_next_token(buf, &tok)) != NULL) { ... }
Scanned(r) ==
    IF r.ub
    THEN /\ lpc' = "aborted"
         /\ UNCHANGED <<buf, tokens>>
    ELSE IF r.end = NULL
    THEN /\ lpc' = "fgets"
         /\ UNCHANGED <<buf, tokens>>
    ELSE IF r.end = buf
    THEN \* token_list_delete(sentinel.next); return NULL;
         /\ tokens' = <<>>
         /\ lpc' = "failed"
         /\ UNCHANGED buf
    ELSE /\ buf' = r.end
         /\ tokens' = Append(tokens, [type |-> r.tok.type, value |-> r.tok.value,
                                      line_cntr |-> line_cntr])
         /\ UNCHANGED lpc

NextToken ==
    /\ lpc = "scan"
    /\ Scanned(read_next_token(linebuffer, buf))
    /\ UNCHANGED <<fin, linebuffer, line_cntr>>
    /\ UNCHANGED pvars

LexNext == Fgets \/ NextToken

LexSpec == LexInit /\ [][LexNext]_vars

(***************************************************************************)
(* Reading a tree off the heap, for the properties below.                  *)
(***************************************************************************)
RECURSIVE TreeOf(_, _)
\* the tree at root: each node's type, payload and children in order
TreeOf(root, m) ==
    LET kids == LiveChildren(root, m)
        data == m[root].data
    IN Tree(m[root].type,
            IF data # NULL /\ m[data].kind = "str" THEN m[data].str ELSE "",
            IF data # NULL /\ m[data].kind = "num" THEN m[data].num ELSE 0,
            [i \in 1..Len(kids) |-> TreeOf(kids[i], m)])

\* the stream is a grammar document and nothing else
ExactDocument == doc.len > 0 /\ doc.len = Len(tl)

\* the cursor after the document the stream starts with
AfterDocument == IF doc.len = Len(tl) THEN NULL ELSE doc.len + 1

(***************************************************************************)
(* C1.  A token stream that is exactly a grammar document with an array or *)
(* an object as root parses: parse_json returns a tree and sets the end    *)
(* cursor to NULL, the whole stream consumed.                              *)
(***************************************************************************)
C1_FullConsumption ==
    ExactDocument =>
        /\ pc # "aborted"
        /\ pc = "parsed" => (st # NULL /\ end = NULL)

\* a parsed document nested three deep:  [ { "a" : [ ] } ]
C1_Witness ==
    /\ pc = "parsed" /\ ExactDocument /\ st # NULL /\ end = NULL
    /\ doc.ast.type = syntax_array
    /\ Len(doc.ast.kids) = 1
    /\ doc.ast.kids[1].type = syntax_object
    /\ Len(doc.ast.kids[1].kids) = 1
    /\ doc.ast.kids[1].kids[1].kids[2] = Tree(syntax_array, "", 0, <<>>)

(***************************************************************************)
(* C2.  parse_json has one of two outcomes: a tree, with end at the first  *)
(* token after the root array or object (NULL when nothing is left over),  *)
(* or absence, with end at the head of the stream.                         *)
(***************************************************************************)
C2_TwoOutcomes ==
    pc # "lexed" =>
        /\ pc = "parsed"
        /\ IF doc.len > 0
           THEN st # NULL /\ end = AfterDocument
           ELSE st = NULL /\ end = StreamHead

(***************************************************************************)
(* C3.  A rule that fails leaves the caller's cursor at the cursor the     *)
(* attempt started from, a defined value, also when it started at the end  *)
(* of the stream.                                                          *)
(***************************************************************************)
C3_FailureKeepsCursor == \A f \in fails : f.end = f.start

(***************************************************************************)
(* C4.  The token stream is read-only for the parser and the tree          *)
(* utilities: every token keeps its type, payload and line, and no token   *)
(* payload is released.                                                    *)
(***************************************************************************)
C4_TokensReadOnly ==
    \A i \in 1..Len(tl) :
        /\ tl[i].type = lexed[i].type
        /\ tl[i].line_cntr = lexed[i].line
        /\ tl[i].type = TOKEN_STRING =>
              mem[tl[i].value].frees = 0 /\ mem[tl[i].value].str = lexed[i].str
        /\ tl[i].type = TOKEN_NUMBER =>
              mem[tl[i].value].frees = 0 /\ mem[tl[i].value].num = lexed[i].num

(***************************************************************************)
(* C5.  The copy owns its payloads: deleting the copy and the original     *)
(* releases every payload once, and a payload changed through the copy     *)
(* leaves the original as parsed.                                          *)
(***************************************************************************)
C5_CopyIndependent ==
    /\ cp # NULL => \A a \in 1..Len(mem) : mem[a].frees <= 1
    /\ (wrote # NULL /\ stLive /\ doc.len > 0) => TreeOf(st, mem) = doc.ast

(***************************************************************************)
(* C6.  Every node of a tree parse_json returns has the shape of its type: *)
(* a pair has two children, a string key and a value; an object's children *)
(* are pairs; a scalar has no children; no elements or members node.       *)
(***************************************************************************)
ValueTypes == {syntax_string, syntax_number, syntax_array, syntax_object,
               syntax_true, syntax_false, syntax_null}

Shaped(n, m) ==
    LET kids == LiveChildren(n, m) IN
    /\ m[n].type \notin {syntax_elements, syntax_members}
    /\ m[n].type = syntax_pair =>
          /\ Len(kids) = 2
          /\ m[kids[1]].type = syntax_string
          /\ m[kids[2]].type \in ValueTypes
    /\ m[n].type = syntax_object => \A i \in 1..Len(kids) : m[kids[i]].type = syntax_pair
    /\ m[n].type \in {syntax_string, syntax_number, syntax_true, syntax_false, syntax_null} =>
          m[n].children = NULL

C6_TreeShape ==
    (pc = "parsed" /\ stLive) => \A n \in NodesOf(st, mem) : Shaped(n, mem)

\* a returned tree with a pair whose value is an array with children
C6_Witness ==
    /\ pc = "parsed" /\ stLive
    /\ \E n \in NodesOf(st, mem) :
          /\ mem[n].type = syntax_pair
          /\ mem[LiveChildren(n, mem)[2]].type = syntax_array
          /\ syntax_tree_num_children(LiveChildren(n, mem)[2], mem) > 1

(***************************************************************************)
(* C7.  The tree parse_json returns for a document is the document's tree: *)
(* every array and object has exactly its values or pairs as children, in  *)
(* source order; [] and {} are nodes without children.                     *)
(***************************************************************************)
C7_ChildrenInOrder ==
    (pc = "parsed" /\ doc.len > 0 /\ nparse = 1 /\ cp = NULL /\ stLive) =>
        TreeOf(st, mem) = doc.ast

\* [1,2,3] parsed to an array of the numbers 1, 2, 3
C7_Witness ==
    /\ pc = "parsed" /\ lexed = Example123.toks /\ st # NULL
    /\ TreeOf(st, mem).kids =
          <<Tree(syntax_number, "", 1, <<>>), Tree(syntax_number, "", 2, <<>>),
            Tree(syntax_number, "", 3, <<>>)>>

(***************************************************************************)
(* C8.  syntax_tree_get_field returns the value node of the first pair of  *)
(* the object whose key is the field name, the node itself; NULL for NULL, *)
(* for a node that is no object and when no key matches.                   *)
(***************************************************************************)
KeyOf(pair, m) == m[m[LiveChildren(pair, m)[1]].data].str

FirstMatch(object, fieldname, m) ==
    LET kids == LiveChildren(object, m)
        hits == {i \in 1..Len(kids) : KeyOf(kids[i], m) = fieldname}
    IN IF hits = {} THEN NULL
       ELSE LiveChildren(kids[CHOOSE i \in hits : \A j \in hits : i <= j], m)[2]

C8_GetField ==
    field.called =>
        /\ field.result =
              IF field.object = NULL \/ mem[field.object].type # syntax_object THEN NULL
              ELSE FirstMatch(field.object, field.fieldname, mem)
        /\ (lexed = ExampleAB.toks /\ field.object = st /\ field.fieldname = "b") =>
              /\ field.result # NULL
              /\ TreeOf(field.result, mem) = Tree(syntax_number, "", 2, <<>>)
        /\ (lexed = ExampleAB.toks /\ field.object = st /\ field.fieldname = "c") =>
              field.result = NULL

\* "b" looked up in the object parsed from {"a":1,"b":2}
C8_Witness ==
    /\ field.called /\ lexed = ExampleAB.toks /\ field.object = st
    /\ field.fieldname = "b" /\ field.result # NULL

(***************************************************************************)
(* The lexer's input as the rules of the specification read it.            *)
(***************************************************************************)
\* p is where the token after buf starts: only white space before it
TokenStart(p) ==
    /\ lpc = "scan"
    /\ p >= buf
    /\ \A i \in buf..(p - 1) : isspace(linebuffer[i])
    /\ ~isspace(linebuffer[p])

\* a number starts with a digit, or with a minus and a digit
NumberStart(str, p) ==
    \/ isdigit(CharAt(str, p))
    \/ CharAt(str, p) = "-" /\ isdigit(CharAt(str, p + 1))

MatchesRule(str, p) ==
    \/ str[p] \in {"[", "]", "{", "}", ":", ","}
    \/ \E i \in 1..Len(keywords) : KeywordAt(str, p, keywords[i].str)
    \/ str[p] = "\""
    \/ NumberStart(str, p)

\* the quotes after the opening quote at p that no backslash precedes
Terminators(str, p) ==
    {q \in (p + 1)..Len(str) : str[q] = "\"" /\ str[q - 1] # "\\"}

FirstOf(S) == CHOOSE q \in S : \A r \in S : q <= r

(***************************************************************************)
(* C9.  Where the characters at a position of a line match no rule of the  *)
(* lexer, token_list_read_from_file returns NULL and the tokens collected  *)
(* so far are discarded.                                                   *)
(***************************************************************************)
C9_NoPartialStream ==
    [][\A p \in 1..Len(linebuffer) :
          (TokenStart(p) /\ ~MatchesRule(linebuffer, p)) =>
              (lpc' = "failed" /\ tokens' = <<>>)]_vars

(***************************************************************************)
(* C10.  A string literal with a terminating quote gives one STRING token  *)
(* whose content is the characters between the opening quote and the first *)
(* quote no backslash precedes, backslashes kept; the scan goes on after    *)
(* that quote.                                                             *)
(***************************************************************************)
C10_TerminatedString ==
    [][\A p \in 1..Len(linebuffer) :
          (TokenStart(p) /\ linebuffer[p] = "\"" /\ Terminators(linebuffer, p) # {}) =>
              /\ tokens' = Append(tokens,
                     [type |-> TOKEN_STRING,
                      value |-> SubSeq(linebuffer, p + 1,
                                       FirstOf(Terminators(linebuffer, p)) - 1),
                      line_cntr |-> line_cntr])
              /\ buf' = FirstOf(Terminators(linebuffer, p)) + 1
              /\ lpc' = "scan"]_vars

\* "a\"b" lexed to the one token of content a\"b
C10_Witness ==
    /\ linebuffer = <<"\"", "a", "\\", "\"", "b", "\"">>
    /\ buf = 7
    /\ tokens = <<[type |-> TOKEN_STRING, value |-> <<"a", "\\", "\"", "b">>,
                   line_cntr |-> 1]>>

(***************************************************************************)
(* C11.  A NUMBER token is produced only for characters of the form:       *)
(* optional minus, an integer part that is a lone 0 or a nonzero digit and *)
(* further digits, an optional fraction after '.', an optional exponent    *)
(* after e or E with an optional sign.  A lone '-', '.' or 'e' and a 0     *)
(* followed by digits are not one NUMBER token.                            *)
(***************************************************************************)
AllDigits(w, a, b) == \A i \in a..b : isdigit(w[i])

\* w[a..b] is a lone 0, or a nonzero digit and further digits
IntegerForm(w, a, b) ==
    /\ a <= b
    /\ AllDigits(w, a, b)
    /\ w[a] = "0" => a = b

\* w[a..b] is empty, or a '.' and digits
FractionForm(w, a, b) == a > b \/ (w[a] = "." /\ AllDigits(w, a + 1, b))

\* w[a..b] is empty, or e or E, an optional sign, and digits
ExponentForm(w, a, b) ==
    \/ a > b
    \/ /\ w[a] \in {"e", "E"}
       /\ \/ AllDigits(w, a + 1, b)
          \/ a + 1 <= b /\ w[a + 1] \in {"-", "+"} /\ AllDigits(w, a + 2, b)

NumberForm(w) ==
    \E a \in 1..2 : \E i \in a..Len(w) : \E f \in i..Len(w) :
        /\ a = 2 => w[1] = "-"
        /\ IntegerForm(w, a, i)
        /\ FractionForm(w, i + 1, f)
        /\ ExponentForm(w, f + 1, Len(w))

C11_NumberForm ==
    [][\A p \in 1..Len(linebuffer) :
          (/\ TokenStart(p)
           /\ Len(tokens') = Len(tokens) + 1
           /\ tokens'[Len(tokens')].type = TOKEN_NUMBER) =>
              NumberForm(SubSeq(linebuffer, p, buf' - 1))]_vars

(***************************************************************************)
(* C12.  A string literal without a terminating quote on its line does not *)
(* make lexing fail: it gives a STRING token whose content is the rest of  *)
(* the line after the opening quote (with or without the newline that ends *)
(* the line), also when the opening quote is the last character.           *)
(***************************************************************************)
\* the rest of the line after position p, and the same without the newline
Remainders(str, p) ==
    {SubSeq(str, p + 1, Len(str))}
    \cup (IF Len(str) > p /\ str[Len(str)] = "\n"
          THEN {SubSeq(str, p + 1, Len(str) - 1)} ELSE {})

C12_UnterminatedString ==
    [][\A p \in 1..Len(linebuffer) :
          (TokenStart(p) /\ linebuffer[p] = "\"" /\ Terminators(linebuffer, p) = {}) =>
              /\ lpc' = "scan"
              /\ \E content \in Remainders(linebuffer, p) :
                    tokens' = Append(tokens, [type |-> TOKEN_STRING, value |-> content,
                                              line_cntr |-> line_cntr])]_vars

(***************************************************************************)
(* C13.  After a failed parse_json nothing the attempt allocated remains   *)
(* allocated and nothing was released twice: every tree node, child array  *)
(* and payload malloc'ed after lexing has been freed exactly once.         *)
(***************************************************************************)
\* the heap cells allocated after lexing
Allocated == (PayloadAddr(lexed, Len(lexed)) + 1)..Len(mem)

C13_FailureReleasesAll ==
    (pc = "parsed" /\ nparse = 1 /\ st = NULL) =>
        \A a \in 1..Len(mem) :
            /\ mem[a].frees <= 1
            /\ a \in Allocated => mem[a].frees = 1

====
